---- MODULE Spec2Model ----
(***************************************************************************)
(* Gas Station Refueling (src/src/main.py) as a state machine.             *)
(*                                                                         *)
(* The program is four generator processes (gas_station_control,           *)
(* tank_truck, car_generator, car) run by a simpy Environment over one     *)
(* simpy.Resource (the pumps) and one simpy.Container (the reservoir).     *)
(* One action of the model is one step of env.run(): the event with the    *)
(* smallest (time, priority, id) is popped, its callbacks run, and the     *)
(* process waiting for it runs up to its next yield.                       *)
(*                                                                         *)
(* Time is counted in ticks of 1/REFUELING_SPEED second, so that the       *)
(* refuelling delay liters_required / REFUELING_SPEED is a whole number.   *)
(*                                                                         *)
(* What the simpy calls of main.py do is modelled at the call: a process   *)
(* start is an URGENT event at the current time, a timeout and a succeeded *)
(* request, release, get or put a NORMAL one; Resource grants the head of  *)
(* its queue while a pump is free; Container does queued gets (puts) from  *)
(* the head while the level (the room) covers them, and refuses amounts    *)
(* <= 0 with ValueError.                                                   *)
(***************************************************************************)
EXTENDS Integers, Sequences, FiniteSets, TLC

\* ---------------------------------------------------------------- constants
GAS_STATION_VOLUME == 200
THRESHOLD == 10
FUEL_TANK_SIZE == 50
FUEL_TANK_LEVEL_MIN == 5
FUEL_TANK_LEVEL_MAX == 25
REFUELING_SPEED == 2
TANK_TRUCK_TIME == 300
T_INTER_MIN == 30
T_INTER_MAX == 300
PUMP_CAPACITY == 2
CHECK_INTERVAL == 10
UNTIL == 1000

\* simpy's event priorities: Initialize events and the until event are URGENT.
URGENT == 0
NORMAL == 1

\* ------------------------------------------------------------------- bounds
\* random.randint(*FUEL_TANK_LEVEL) draws from the first NLevelDraws values of
\* LevelCandidates, random.randint(*T_INTER) from InterDraws.
NLevelDraws == 2
\* car_generator's loop is endless; the model lets it start MaxCars cars
MaxCars == 9
\* the reservoir alone is tried with runs of MaxCalls gets and puts
MaxCalls == 4

LevelCandidates == <<FUEL_TANK_LEVEL_MIN, FUEL_TANK_LEVEL_MAX, FUEL_TANK_LEVEL_MIN + 5,
                     FUEL_TANK_LEVEL_MAX - 5>>

Min(a, b) == IF a <= b THEN a ELSE b

\* mutant: randint from below T_INTER's lower end
InterDrawsBelow == {T_INTER_MIN - 5, T_INTER_MIN, T_INTER_MAX}

InterDraws == {T_INTER_MIN, T_INTER_MIN + 5, T_INTER_MAX}
LevelDraws == {LevelCandidates[k] : k \in 1..Min(NLevelDraws, Len(LevelCandidates))}

\* seconds -> ticks
Ticks(seconds) == seconds * REFUELING_SPEED

\* -------------------------------------------------------------------- state
VARIABLES
    now,          \* env.now, in ticks
    queue,        \* env._queue: the scheduled events
    eid,          \* env._eid: the next event id
    status,       \* "running" | "stopped" (until reached) | "error" (exception)
    level,        \* fuel_pump.level
    cput_queue,   \* fuel_pump.put_queue: amounts of puts not yet done
    get_queue,    \* fuel_pump.get_queue: <<[car, amount]>> of gets not yet done
    users,        \* gas_station.users: cars holding a pump, in grant order
    put_queue,    \* gas_station.put_queue: cars waiting for a pump
    cars,         \* live car processes: label -> [ftl, pc, holders]; holders is
                  \* gas_station.users as the car found it when it arrived
    ncars,        \* car_generator's counter i: cars created so far
    ctrl,         \* gas_station_control: "init" | "monitoring" | "dispatching"
    truck,        \* tank_truck: "none" | "init" | "transit" | "putting" | "done"
    popped,       \* the event processed by the last step
    ngrants,      \* number of pump requests granted so far
    lastGranted,  \* the car of the last pump request granted, NoCar if none
    callTime,     \* time of the last "Calling tank truck", -1 if none
    dropTime,     \* time the level last fell below the threshold, -1 if it is above
    putTotal,     \* liters of the puts done so far
    gotTotal      \* liters of the gets done so far

vars == <<now, queue, eid, status, level, cput_queue, get_queue, users, put_queue,
          cars, ncars, ctrl, truck, popped, ngrants, lastGranted, callTime, dropTime,
          putTotal, gotTotal>>

NoCar == 0

Event(t, p, i, k, c) == [time |-> t, prio |-> p, eid |-> i, kind |-> k, car |-> c]

\* ------------------------------------------------------------- event queue
\* mutant: the queue ordered by time and id alone
BeforeNoPriority(a, b) ==
    \/ a.time < b.time
    \/ a.time = b.time /\ a.eid < b.eid

\* heapq order of env._queue entries (time, priority, eid, event)
Before(a, b) ==
    \/ a.time < b.time
    \/ a.time = b.time /\ a.prio < b.prio
    \/ a.time = b.time /\ a.prio = b.prio /\ a.eid < b.eid

\* mutant: the entry of a max-heap
NextEventLatest(q) == CHOOSE e \in q : \A f \in q \ {e} : Before(f, e)

\* env.step(): the entry heappop returns
NextEvent(q) == CHOOSE e \in q : \A f \in q \ {e} : Before(e, f)

\* env.schedule(event, priority, delay) for the events of `evs`, a sequence of
\* <<priority, delay, kind, car>>, in this order, ids counted from `i`
RECURSIVE Schedule(_, _, _, _)
Schedule(q, t, i, evs) ==
    IF evs = <<>> THEN q
    ELSE Schedule(q \cup {Event(t + evs[1][2], evs[1][1], i, evs[1][3], evs[1][4])},
                  t, i + 1, Tail(evs))

\* ---------------------------------------------------------------- Container
\* mutant: _do_get without its level check
DoGetUnchecked(lvl, amount) == TRUE

\* Container._do_get: the get is done when the level covers its amount
DoGetOk(lvl, amount) == lvl >= amount

\* mutant: a get that cannot be covered is done with what is left
RECURSIVE TriggerGetPartial(_, _, _)
TriggerGetPartial(lvl, gq, done) ==
    IF gq # <<>> /\ lvl > 0
    THEN TriggerGetPartial(IF lvl >= gq[1].amount THEN lvl - gq[1].amount ELSE 0,
                           Tail(gq), Append(done, gq[1]))
    ELSE [level |-> lvl, done |-> done, left |-> gq]

\* mutant: one get is done per trigger
TriggerGetOnce(lvl, gq, done) ==
    IF gq # <<>> /\ DoGetOk(lvl, gq[1].amount)
    THEN [level |-> lvl - gq[1].amount, done |-> Append(done, gq[1]), left |-> Tail(gq)]
    ELSE [level |-> lvl, done |-> done, left |-> gq]

\* mutant: a get that cannot be done is passed over and later ones are tried
RECURSIVE TriggerGetScan(_, _, _, _)
TriggerGetScan(lvl, gq, done, kept) ==
    IF gq = <<>> THEN [level |-> lvl, done |-> done, left |-> kept]
    ELSE IF DoGetOk(lvl, gq[1].amount)
         THEN TriggerGetScan(lvl - gq[1].amount, Tail(gq), Append(done, gq[1]), kept)
         ELSE TriggerGetScan(lvl, Tail(gq), done, Append(kept, gq[1]))

TriggerGetSkip(lvl, gq, done) == TriggerGetScan(lvl, gq, done, <<>>)

\* BaseResource._trigger_get over Container._do_get: gets are done from the
\* head of get_queue until one cannot be; returns the level, the gets done
\* and the gets left
RECURSIVE TriggerGet(_, _, _)
TriggerGet(lvl, gq, done) ==
    IF gq # <<>> /\ DoGetOk(lvl, gq[1].amount)
    THEN TriggerGet(lvl - gq[1].amount, Tail(gq), Append(done, gq[1]))
    ELSE [level |-> lvl, done |-> done, left |-> gq]

\* mutant: only a negative amount is refused
GetAmountNonNegative(amount) == amount >= 0

\* ContainerGet.__init__: an amount <= 0 raises ValueError
GetAmountValid(amount) == amount > 0

\* fuel_pump.get(amount) by car c: the amount is validated, the get joins
\* get_queue and _trigger_get does the gets it can
ContainerGet(lvl, gq, c, amount) ==
    IF GetAmountValid(amount)
    THEN [ok |-> TRUE] @@ TriggerGet(lvl, Append(gq, [car |-> c, amount |-> amount]), <<>>)
    ELSE [ok |-> FALSE, level |-> lvl, done |-> <<>>, left |-> gq]

\* mutant: a put that would fill the reservoir exactly has to wait
DoPutStrict(lvl, amount) == GAS_STATION_VOLUME - lvl > amount

\* Container._do_put: the put is done when the free room covers its amount
DoPutOk(lvl, amount) == GAS_STATION_VOLUME - lvl >= amount

\* BaseResource._trigger_put over Container._do_put
RECURSIVE TriggerCPut(_, _, _)
TriggerCPut(lvl, pq, done) ==
    IF pq # <<>> /\ DoPutOk(lvl, pq[1])
    THEN TriggerCPut(lvl + pq[1], Tail(pq), done + 1)
    ELSE [level |-> lvl, done |-> done, left |-> pq]

\* ContainerPut.__init__: an amount <= 0 raises ValueError
PutAmountValid(amount) == amount > 0

\* fuel_pump.put(amount): the amount is validated, the put joins put_queue and
\* _trigger_put does the puts it can
ContainerPut(lvl, pq, amount) ==
    IF PutAmountValid(amount)
    THEN [ok |-> TRUE] @@ TriggerCPut(lvl, Append(pq, amount), 0)
    ELSE [ok |-> FALSE, level |-> lvl, done |-> 0, left |-> pq]

\* ----------------------------------------------------------------- Resource
\* mutant: off by one in the capacity check
DoRequestOffByOne(us) == Len(us) <= PUMP_CAPACITY

\* Resource._do_put: a request is granted while a pump is free
DoRequestOk(us) == Len(us) < PUMP_CAPACITY

\* mutant: the newest request is granted first
TriggerPutLifo(us, pq) ==
    IF pq # <<>> /\ DoRequestOk(us)
    THEN [users |-> Append(us, pq[Len(pq)]), granted |-> <<pq[Len(pq)]>>,
          left |-> SubSeq(pq, 1, Len(pq) - 1)]
    ELSE [users |-> us, granted |-> <<>>, left |-> pq]

\* mutant: the head of the queue is granted a pump whether or not one is free
TriggerPutAlways(us, pq) ==
    IF pq # <<>>
    THEN [users |-> Append(us, pq[1]), granted |-> <<pq[1]>>, left |-> Tail(pq)]
    ELSE [users |-> us, granted |-> <<>>, left |-> pq]

\* BaseResource._trigger_put over Resource._do_put, which returns None: only
\* the head of put_queue is tried
TriggerPut(us, pq) ==
    IF pq # <<>> /\ DoRequestOk(us)
    THEN [users |-> Append(us, pq[1]), granted |-> <<pq[1]>>, left |-> Tail(pq)]
    ELSE [users |-> us, granted |-> <<>>, left |-> pq]

\* mutant: the oldest holder is removed, whoever releases
RemoveHead(s, x) == Tail(s)

\* Resource._do_get: users.remove(request)
Remove(s, x) == SelectSeq(s, LAMBDA y : y # x)

\* ------------------------------------------------------------------ control
\* mutant: the level in liters compared with the percentage
BelowThresholdLiters(lvl) == lvl < THRESHOLD

\* mutant: a level of exactly THRESHOLD percent counts as below it
BelowThresholdInclusive(lvl) == lvl * 100 <= THRESHOLD * GAS_STATION_VOLUME

\* gas_station_control line 38: level / capacity * 100 < THRESHOLD
BelowThreshold(lvl) == lvl * 100 < THRESHOLD * GAS_STATION_VOLUME

\* main, lines 22-24: the environment, the pumps and the reservoir, with the
\* events `q` scheduled and the reservoir at `init`
Setup(q, init) ==
    /\ now = 0
    /\ queue = q
    /\ eid = Cardinality(q)
    /\ status = "running"
    /\ level = init
    /\ cput_queue = <<>>
    /\ get_queue = <<>>
    /\ users = <<>>
    /\ put_queue = <<>>
    /\ cars = [c \in {} |-> [ftl |-> 0, pc |-> "request", holders |-> {}]]
    /\ ncars = 0
    /\ ctrl = "init"
    /\ truck = "none"
    /\ popped = Event(0, URGENT, -1, "none", NoCar)
    /\ ngrants = 0
    /\ lastGranted = NoCar
    /\ callTime = -1
    /\ dropTime = -1
    /\ putTotal = 0
    /\ gotTotal = 0

\* main, lines 22-29: the two processes are started and run(until) is entered
Init ==
    Setup({Event(0, URGENT, 0, "ctrl_init", NoCar),
           Event(0, URGENT, 1, "gen_init", NoCar),
           Event(Ticks(UNTIL), URGENT, 2, "until", NoCar)},
          GAS_STATION_VOLUME)

\* THRESHOLD percent of the capacity, in liters
DropLevel == (THRESHOLD * GAS_STATION_VOLUME) \div 100

\* the time the level fell below DropLevel, kept while it stays below
DropAfter(newLevel, t) ==
    IF newLevel >= DropLevel THEN -1
    ELSE IF level < DropLevel THEN dropTime ELSE t

\* the liters of the gets `done`
RECURSIVE SumAmounts(_)
SumAmounts(done) ==
    IF done = <<>> THEN 0 ELSE done[1].amount + SumAmounts(Tail(done))

\* the liters of the first n puts of `pq`
RECURSIVE SumPuts(_, _)
SumPuts(pq, n) ==
    IF n = 0 THEN 0 ELSE pq[1] + SumPuts(Tail(pq), n - 1)

\* bookkeeping of the puts and gets a step did
Account(puts, gets) ==
    /\ putTotal' = putTotal + puts
    /\ gotTotal' = gotTotal + gets

\* ------------------------------------------------------------------ env.step
Popping(kind) ==
    /\ status = "running"
    /\ queue # {}
    /\ NextEvent(queue).kind = kind

\* what every step does: pop the event, advance the clock
Pop ==
    /\ popped' = NextEvent(queue)
    /\ now' = NextEvent(queue).time

Rest == queue \ {NextEvent(queue)}

\* gas_station_control, lines 37-44, from the top of the loop
ControlLoop ==
    IF BelowThreshold(level)
    THEN /\ queue' = Schedule(Rest, now', eid, <<<<URGENT, 0, "truck_init", NoCar>>>>)
         /\ ctrl' = "dispatching"
         /\ truck' = "init"
         /\ callTime' = now'
    ELSE /\ queue' = Schedule(Rest, now', eid,
                              <<<<NORMAL, Ticks(CHECK_INTERVAL), "ctrl_poll", NoCar>>>>)
         /\ ctrl' = "monitoring"
         /\ UNCHANGED <<truck, callTime>>

\* Initialize(gas_station_control): the process starts at the top of its loop
ControlStart ==
    /\ Popping("ctrl_init")
    /\ Pop
    /\ ControlLoop
    /\ eid' = eid + 1
    /\ UNCHANGED <<status, level, cput_queue, get_queue, users, put_queue, cars, ncars,
                   dropTime>>
    /\ UNCHANGED <<ngrants, lastGranted, putTotal, gotTotal>>

\* the timeout of line 44 fires: the next round of the loop
ControlPoll ==
    /\ Popping("ctrl_poll")
    /\ Pop
    /\ ControlLoop
    /\ eid' = eid + 1
    /\ UNCHANGED <<status, level, cput_queue, get_queue, users, put_queue, cars, ncars,
                   dropTime>>
    /\ UNCHANGED <<ngrants, lastGranted, putTotal, gotTotal>>

\* Initialize(tank_truck): line 49, yield env.timeout(TANK_TRUCK_TIME)
TruckStart ==
    /\ Popping("truck_init")
    /\ Pop
    /\ queue' = Schedule(Rest, now', eid,
                         <<<<NORMAL, Ticks(TANK_TRUCK_TIME), "truck_arrive", NoCar>>>>)
    /\ eid' = eid + 1
    /\ truck' = "transit"
    /\ UNCHANGED <<status, level, cput_queue, get_queue, users, put_queue, cars, ncars,
                   ctrl, callTime, dropTime>>
    /\ UNCHANGED <<ngrants, lastGranted, putTotal, gotTotal>>

\* mutant: the truck puts a full reservoir's worth
TruckAmountFull == GAS_STATION_VOLUME

\* tank_truck line 51
TruckAmount == GAS_STATION_VOLUME - level

\* tank_truck lines 50-53: the truck arrives and puts capacity - level.
\* ContainerPut raises ValueError for an amount <= 0; otherwise the put joins
\* fuel_pump.put_queue and _trigger_put does it if there is room.
TruckArrive ==
    /\ Popping("truck_arrive")
    /\ Pop
    /\ LET r == ContainerPut(level, cput_queue, TruckAmount) IN
       IF ~r.ok
       THEN /\ status' = "error"
            /\ queue' = Rest
            /\ UNCHANGED <<eid, level, cput_queue, truck, dropTime, putTotal, gotTotal>>
       ELSE /\ level' = r.level
            /\ cput_queue' = r.left
            /\ queue' = Schedule(Rest, now', eid,
                                 [k \in 1..r.done |-> <<NORMAL, 0, "put", NoCar>>])
            /\ eid' = eid + r.done
            /\ truck' = "putting"
            /\ dropTime' = DropAfter(r.level, now')
            /\ Account(SumPuts(Append(cput_queue, TruckAmount), r.done), 0)
            /\ UNCHANGED status
    /\ UNCHANGED <<get_queue, users, put_queue, cars, ncars, ctrl, callTime>>
    /\ UNCHANGED <<ngrants, lastGranted>>

\* the events of the gets `done`, in the order they were done
GetEvents(done) == [k \in 1..Len(done) |-> <<NORMAL, 0, "get", done[k].car>>]

\* the ContainerPut event is processed: its callback _trigger_get does the
\* waiting gets, then tank_truck resumes after line 53 and ends
PutDone ==
    /\ Popping("put")
    /\ Pop
    /\ LET r == TriggerGet(level, get_queue, <<>>) IN
       /\ level' = r.level
       /\ get_queue' = r.left
       /\ queue' = Schedule(Rest, now', eid,
                            GetEvents(r.done) \o <<<<NORMAL, 0, "truck_end", NoCar>>>>)
       /\ eid' = eid + Len(r.done) + 1
       /\ dropTime' = DropAfter(r.level, now')
       /\ Account(0, SumAmounts(r.done))
    /\ truck' = "done"
    /\ UNCHANGED <<status, cput_queue, users, put_queue, cars, ncars, ctrl, callTime>>
    /\ UNCHANGED <<ngrants, lastGranted>>

\* mutant: after the truck the controller checks again at once
TruckEndRecheck ==
    /\ Popping("truck_end")
    /\ Pop
    /\ queue' = Schedule(Rest, now', eid, <<<<NORMAL, 0, "ctrl_poll", NoCar>>>>)
    /\ eid' = eid + 1
    /\ ctrl' = "monitoring"
    /\ truck' = "none"
    /\ UNCHANGED <<status, level, cput_queue, get_queue, users, put_queue, cars, ncars,
                   callTime, dropTime>>
    /\ UNCHANGED <<ngrants, lastGranted, putTotal, gotTotal>>

\* the tank_truck process event is processed: gas_station_control resumes
\* after line 42 and yields the timeout of line 44
TruckEnd ==
    /\ Popping("truck_end")
    /\ Pop
    /\ queue' = Schedule(Rest, now', eid,
                         <<<<NORMAL, Ticks(CHECK_INTERVAL), "ctrl_poll", NoCar>>>>)
    /\ eid' = eid + 1
    /\ ctrl' = "monitoring"
    /\ truck' = "none"
    /\ UNCHANGED <<status, level, cput_queue, get_queue, users, put_queue, cars, ncars,
                   callTime, dropTime>>
    /\ UNCHANGED <<ngrants, lastGranted, putTotal, gotTotal>>

\* Initialize(car_generator): line 60, the first inter-arrival timeout
GeneratorStart ==
    /\ Popping("gen_init")
    /\ Pop
    /\ \E d \in InterDraws :
          queue' = Schedule(Rest, now', eid, <<<<NORMAL, Ticks(d), "gen_timeout", NoCar>>>>)
    /\ eid' = eid + 1
    /\ UNCHANGED <<status, level, cput_queue, get_queue, users, put_queue, cars, ncars,
                   ctrl, truck, callTime, dropTime>>
    /\ UNCHANGED <<ngrants, lastGranted, putTotal, gotTotal>>

\* car_generator lines 60-61: the timeout fires, Car #(i+1) is started and the
\* next timeout is drawn (no further timeout once MaxCars cars were started)
GeneratorTimeout ==
    /\ Popping("gen_timeout")
    /\ Pop
    /\ IF ncars + 1 < MaxCars
       THEN /\ \E d \in InterDraws :
                  queue' = Schedule(Rest, now', eid,
                                    <<<<URGENT, 0, "car_init", ncars + 1>>,
                                      <<NORMAL, Ticks(d), "gen_timeout", NoCar>>>>)
            /\ eid' = eid + 2
       ELSE /\ queue' = Schedule(Rest, now', eid, <<<<URGENT, 0, "car_init", ncars + 1>>>>)
            /\ eid' = eid + 1
    /\ ncars' = ncars + 1
    /\ UNCHANGED <<status, level, cput_queue, get_queue, users, put_queue, cars,
                   ctrl, truck, callTime, dropTime>>
    /\ UNCHANGED <<ngrants, lastGranted, putTotal, gotTotal>>

\* the events of the requests `granted`
RequestEvents(granted) == [k \in 1..Len(granted) |-> <<NORMAL, 0, "request", granted[k]>>]

Range(s) == {s[k] : k \in DOMAIN s}

AddCar(c, f, h) ==
    [x \in DOMAIN cars \cup {c} |->
        IF x = c THEN [ftl |-> f, pc |-> "request", holders |-> h] ELSE cars[x]]

\* bookkeeping of the grants a _trigger_put made
Granting(granted) ==
    /\ ngrants' = ngrants + Len(granted)
    /\ lastGranted' = IF granted = <<>> THEN lastGranted ELSE granted[Len(granted)]

\* Initialize(car): lines 73-78, the car draws its tank level and requests a pump
CarStart ==
    /\ Popping("car_init")
    /\ Pop
    /\ LET c == NextEvent(queue).car
           r == TriggerPut(users, Append(put_queue, c)) IN
       /\ \E f \in LevelDraws :
             cars' = AddCar(c, f, Range(users))
       /\ Granting(r.granted)
       /\ UNCHANGED <<putTotal, gotTotal>>
       /\ users' = r.users
       /\ put_queue' = r.left
       /\ queue' = Schedule(Rest, now', eid, RequestEvents(r.granted))
       /\ eid' = eid + Len(r.granted)
    /\ UNCHANGED <<status, level, cput_queue, get_queue, ncars, ctrl, truck, callTime,
                   dropTime>>

\* mutant: the car asks for what it has, not for what it lacks
LitersRequiredLevel(c) == cars[c].ftl

\* car line 81
LitersRequired(c) == FUEL_TANK_SIZE - cars[c].ftl

\* the Request event is processed: the car resumes at line 80 and gets its fuel.
\* ContainerGet raises ValueError for an amount <= 0; otherwise the get joins
\* fuel_pump.get_queue and _trigger_get does the gets it can.
RequestGranted ==
    /\ Popping("request")
    /\ Pop
    /\ LET c == NextEvent(queue).car IN
       LET r == ContainerGet(level, get_queue, c, LitersRequired(c)) IN
       IF ~r.ok
       THEN /\ status' = "error"
            /\ queue' = Rest
            /\ UNCHANGED <<eid, level, get_queue, cars, dropTime, putTotal, gotTotal>>
       ELSE /\ level' = r.level
            /\ get_queue' = r.left
            /\ queue' = Schedule(Rest, now', eid, GetEvents(r.done))
            /\ eid' = eid + Len(r.done)
            /\ cars' = [cars EXCEPT ![c].pc = "get"]
            /\ dropTime' = DropAfter(r.level, now')
            /\ Account(0, SumAmounts(r.done))
            /\ UNCHANGED status
    /\ UNCHANGED <<cput_queue, users, put_queue, ncars, ctrl, truck, callTime>>
    /\ UNCHANGED <<ngrants, lastGranted>>

\* mutant: the refuelling takes liters_required seconds
RefuelTicksLiters(c) == Ticks(LitersRequired(c))

\* car line 85: the refuelling takes liters_required / REFUELING_SPEED seconds
RefuelTicks(c) == (Ticks(LitersRequired(c))) \div REFUELING_SPEED

\* the ContainerGet event is processed: its callback _trigger_put does the
\* waiting puts, then the car resumes at line 85
GetGranted ==
    /\ Popping("get")
    /\ Pop
    /\ LET c == NextEvent(queue).car
           r == TriggerCPut(level, cput_queue, 0) IN
       /\ level' = r.level
       /\ cput_queue' = r.left
       /\ queue' = Schedule(Rest, now', eid,
                            [k \in 1..r.done |-> <<NORMAL, 0, "put", NoCar>>]
                            \o <<<<NORMAL, RefuelTicks(c), "refuel", c>>>>)
       /\ eid' = eid + r.done + 1
       /\ cars' = [cars EXCEPT ![c].pc = "refuel"]
       /\ dropTime' = DropAfter(r.level, now')
       /\ Account(SumPuts(cput_queue, r.done), 0)
    /\ UNCHANGED <<status, get_queue, users, put_queue, ncars, ctrl, truck, callTime>>
    /\ UNCHANGED <<ngrants, lastGranted>>

\* the refuelling timeout fires: line 87, then the with block releases the
\* pump (Resource._do_get removes the request from users) and the car ends
RefuelDone ==
    /\ Popping("refuel")
    /\ Pop
    /\ LET c == NextEvent(queue).car IN
       /\ users' = Remove(users, c)
       /\ cars' = [x \in DOMAIN cars \ {c} |-> cars[x]]
       /\ queue' = Schedule(Rest, now', eid,
                            <<<<NORMAL, 0, "release", c>>, <<NORMAL, 0, "car_end", c>>>>)
       /\ eid' = eid + 2
    /\ UNCHANGED <<status, level, cput_queue, get_queue, put_queue, ncars, ctrl, truck,
                   callTime, dropTime>>
    /\ UNCHANGED <<ngrants, lastGranted, putTotal, gotTotal>>

\* the Release event is processed: its callback _trigger_put grants the pump
\* to the head of put_queue
ReleaseDone ==
    /\ Popping("release")
    /\ Pop
    /\ LET r == TriggerPut(users, put_queue) IN
       /\ users' = r.users
       /\ put_queue' = r.left
       /\ queue' = Schedule(Rest, now', eid, RequestEvents(r.granted))
       /\ eid' = eid + Len(r.granted)
       /\ Granting(r.granted)
       /\ UNCHANGED <<putTotal, gotTotal>>
    /\ UNCHANGED <<status, level, cput_queue, get_queue, cars, ncars, ctrl, truck,
                   callTime, dropTime>>

\* the car's process event is processed: nobody waits for it
CarEnd ==
    /\ Popping("car_end")
    /\ Pop
    /\ queue' = Rest
    /\ UNCHANGED <<eid, status, level, cput_queue, get_queue, users, put_queue, cars,
                   ncars, ctrl, truck, callTime, dropTime>>
    /\ UNCHANGED <<ngrants, lastGranted, putTotal, gotTotal>>

\* env.run(until=1000): the until event stops the run
Until ==
    /\ Popping("until")
    /\ Pop
    /\ queue' = Rest
    /\ status' = "stopped"
    /\ UNCHANGED <<eid, level, cput_queue, get_queue, users, put_queue, cars, ncars,
                   ctrl, truck, callTime, dropTime>>
    /\ UNCHANGED <<ngrants, lastGranted, putTotal, gotTotal>>

Next ==
    \/ ControlStart
    \/ ControlPoll
    \/ TruckStart
    \/ TruckArrive
    \/ PutDone
    \/ TruckEnd
    \/ GeneratorStart
    \/ GeneratorTimeout
    \/ CarStart
    \/ RequestGranted
    \/ GetGranted
    \/ RefuelDone
    \/ ReleaseDone
    \/ CarEnd
    \/ Until

Spec == Init /\ [][Next]_vars

\* ------------------------------------------------------- the reservoir alone
\* fuel_pump under any callers: gets and puts of amounts the program's own
\* cars and truck never ask for (zero, negative, more than the capacity).
ProbeAmounts == {0 - FUEL_TANK_LEVEL_MIN, 0, FUEL_TANK_SIZE - FUEL_TANK_LEVEL_MIN,
                 GAS_STATION_VOLUME, GAS_STATION_VOLUME + FUEL_TANK_LEVEL_MIN}

ProbeInits == {0, FUEL_TANK_SIZE, GAS_STATION_VOLUME}

InitContainer == \E init \in ProbeInits : Setup({}, init)

\* a caller issues fuel_pump.get(a), as car line 82 does
GetCall ==
    /\ status = "running"
    /\ ncars < MaxCalls
    /\ \E a \in ProbeAmounts :
          LET c == ncars + 1
              r == ContainerGet(level, get_queue, c, a) IN
          /\ popped' = Event(now, NORMAL, -1, "get_call", c)
          /\ cars' = [AddCar(c, FUEL_TANK_SIZE - a, {}) EXCEPT ![c].pc = "get"]
          /\ status' = IF r.ok THEN "running" ELSE "error"
          /\ level' = r.level
          /\ get_queue' = r.left
          /\ queue' = Schedule(queue, now, eid, GetEvents(r.done))
          /\ eid' = eid + Len(r.done)
          /\ Account(0, SumAmounts(r.done))
    /\ ncars' = ncars + 1
    /\ UNCHANGED <<now, cput_queue, users, put_queue, ctrl, truck, ngrants, lastGranted,
                   callTime, dropTime>>

\* a caller issues fuel_pump.put(a), as tank_truck line 53 does
PutCall ==
    /\ status = "running"
    /\ ncars < MaxCalls
    /\ \E a \in ProbeAmounts :
          LET r == ContainerPut(level, cput_queue, a) IN
          /\ popped' = Event(now, NORMAL, -1, "put_call", NoCar)
          /\ status' = IF r.ok THEN "running" ELSE "error"
          /\ level' = r.level
          /\ cput_queue' = r.left
          /\ queue' = Schedule(queue, now, eid,
                               [k \in 1..r.done |-> <<NORMAL, 0, "put", NoCar>>])
          /\ eid' = eid + r.done
          /\ Account(SumPuts(Append(cput_queue, a), r.done), 0)
    /\ ncars' = ncars + 1
    /\ UNCHANGED <<now, get_queue, users, put_queue, cars, ctrl, truck, ngrants,
                   lastGranted, callTime, dropTime>>

\* a ContainerGet event is processed: its callback _trigger_put
GetEvent ==
    /\ Popping("get")
    /\ Pop
    /\ LET r == TriggerCPut(level, cput_queue, 0) IN
       /\ level' = r.level
       /\ cput_queue' = r.left
       /\ queue' = Schedule(Rest, now', eid,
                            [k \in 1..r.done |-> <<NORMAL, 0, "put", NoCar>>])
       /\ eid' = eid + r.done
       /\ Account(SumPuts(cput_queue, r.done), 0)
    /\ cars' = [cars EXCEPT ![NextEvent(queue).car].pc = "refuel"]
    /\ UNCHANGED <<status, get_queue, users, put_queue, ncars, ctrl, truck, ngrants,
                   lastGranted, callTime, dropTime>>

\* a ContainerPut event is processed: its callback _trigger_get
PutEvent ==
    /\ Popping("put")
    /\ Pop
    /\ LET r == TriggerGet(level, get_queue, <<>>) IN
       /\ level' = r.level
       /\ get_queue' = r.left
       /\ queue' = Schedule(Rest, now', eid, GetEvents(r.done))
       /\ eid' = eid + Len(r.done)
       /\ Account(0, SumAmounts(r.done))
    /\ UNCHANGED <<status, cput_queue, users, put_queue, cars, ncars, ctrl, truck,
                   ngrants, lastGranted, callTime, dropTime>>

NextContainer ==
    \/ GetCall
    \/ PutCall
    \/ GetEvent
    \/ PutEvent

SpecContainer == InitContainer /\ [][NextContainer]_vars


\* ===================================================================== claims

\* the cars holding a pump and past their request: waiting for fuel or refuelling
Fuelling == {c \in DOMAIN cars : cars[c].pc \in {"get", "refuel"}}

\* the cars whose get is waiting in fuel_pump.get_queue
Waiters == {get_queue[k].car : k \in DOMAIN get_queue}

RECURSIVE SumRequired(_)
SumRequired(cs) ==
    IF cs = {} THEN 0
    ELSE LET c == CHOOSE x \in cs : TRUE IN LitersRequired(c) + SumRequired(cs \ {c})

\* C1: in every reachable state the reservoir level is between 0 and the
\* capacity: 0 <= fuel_pump.level <= 200.
C1_LevelInRange == 0 <= level /\ level <= GAS_STATION_VOLUME

\* C1 witness: the cars' gets have taken the level below what any car asks
\* for, a car waits for fuel and the truck is on its way.
C1_Witness ==
    /\ level < FUEL_TANK_SIZE - FUEL_TANK_LEVEL_MAX
    /\ truck = "transit"
    /\ get_queue # <<>>

\* C2: the number of cars holding a pump (waiting for fuel or refuelling) is
\* between 0 and the pump capacity 2, however many cars are queued.
C2_PumpsBounded ==
    /\ Len(users) <= PUMP_CAPACITY
    /\ Fuelling \subseteq Range(users)
    /\ Cardinality(Fuelling) <= PUMP_CAPACITY

\* C2 witness: both pumps are held by fuelling cars and three more cars queue.
C2_Witness == Cardinality(Fuelling) = PUMP_CAPACITY /\ Len(put_queue) >= 3

\* C3: pump grants are FIFO: the k-th grant goes to Car #k, and every car
\* still waiting in the pump queue requested after the car granted last; the
\* queue itself is in request (label) order.
C3_PumpGrantsFifo ==
    /\ lastGranted = ngrants
    /\ \A k \in DOMAIN put_queue : put_queue[k] > lastGranted
    /\ \A j, k \in DOMAIN put_queue : j < k => put_queue[j] < put_queue[k]

\* C3 witness: a pump was granted from a queue of at least two waiting cars,
\* and the later ones are still waiting.
C3_Witness ==
    /\ popped.kind = "release"
    /\ lastGranted \in Range(users)
    /\ Cardinality(cars[lastGranted].holders) = PUMP_CAPACITY
    /\ put_queue # <<>>

\* C4: a car that arrived while two cars held the pumps holds a pump only
\* after one of those two has released its pump (and ended).
C4_GrantAfterRelease ==
    \A c \in Range(users) :
        Cardinality(cars[c].holders) = PUMP_CAPACITY
            => \E h \in cars[c].holders : h \notin DOMAIN cars /\ h \notin Range(users)

\* C4 witness: a car that found both pumps held has been granted a pump.
C4_Witness ==
    \E c \in Range(users) : Cardinality(cars[c].holders) = PUMP_CAPACITY

\* C5: a get is done only when the level covers it and takes exactly its
\* amount from the level in that step; a get the level does not cover joins
\* the queue and leaves the level alone, and a queued get is done only by the
\* step that processes a put, in full (the level is the one the put left).
C5_GetAtomic ==
    [][
        LET started == {c \in DOMAIN cars' \cap DOMAIN cars :
                            cars[c].pc = "request" /\ cars'[c].pc = "get"}
            doneNow == (Waiters \cup started) \ Waiters'
        IN  /\ level >= level'
                => /\ level' = level - SumRequired(doneNow)
                   /\ level' >= 0
            /\ \A c \in doneNow : level >= LitersRequired(c) \/ popped'.kind = "put"
            /\ \A c \in started :
                    LitersRequired(c) > level => c \in Waiters' /\ level' = level
            /\ \A c \in Waiters \ Waiters' : popped'.kind = "put"
            /\ level' > level => popped'.kind = "truck_arrive" /\ doneNow = {}
    ]_vars

\* C5 witness: a car whose get waited has had it done by the put's drain.
C5_Witness ==
    /\ popped.kind = "put"
    /\ \E c \in DOMAIN cars : cars[c].pc = "get" /\ c \notin Waiters
    /\ level = GAS_STATION_VOLUME - SumRequired({c \in DOMAIN cars : cars[c].pc = "get"})

\* C6 (as stated): the truck is called at the very time at which the level
\* fell below 20 liters.
C6_CallAtDropTime ==
    (ctrl = "dispatching" /\ dropTime >= 0) => callTime = dropTime

\* C6 (amended): the truck is called at the controller's first check after
\* the level fell below 20 liters: later than the drop and at most
\* CHECK_INTERVAL (10) time units after it; until then the run is no further
\* than 10 time units past the drop.
C6_CallAtNextCheck ==
    /\ (ctrl = "dispatching" /\ dropTime >= 0)
          => dropTime < callTime /\ callTime <= dropTime + Ticks(CHECK_INTERVAL)
    /\ (ctrl # "dispatching" /\ dropTime >= 0)
          => now <= dropTime + Ticks(CHECK_INTERVAL)

\* C6 witness: the level fell below 20 liters between two checks and the
\* truck was called at the next one, less than 10 time units later.
C6_Witness ==
    /\ ctrl = "dispatching"
    /\ truck = "init"
    /\ dropTime >= 0
    /\ callTime > dropTime
    /\ callTime < dropTime + Ticks(CHECK_INTERVAL)

\* C7: a truck that was called puts its fuel exactly TANK_TRUCK_TIME (300)
\* time units after the call, never later, and that put takes the level to
\* the full capacity 200 at once (it neither fails nor waits).
C7_TruckRefuel ==
    /\ truck \in {"init", "transit"} => now <= callTime + Ticks(TANK_TRUCK_TIME)
    /\ truck = "putting"
          => /\ now = callTime + Ticks(TANK_TRUCK_TIME)
             /\ level = GAS_STATION_VOLUME
             /\ cput_queue = <<>>
    /\ status # "error"

\* C7 witness: the truck has just put its fuel while two cars wait for fuel.
C7_Witness == truck = "putting" /\ Len(get_queue) = PUMP_CAPACITY

\* a car waits for fuel, the level is not below the threshold and no truck
\* has been called: no get can be done, so the level never changes again and
\* no check ever calls the truck
Starved ==
    /\ status = "running"
    /\ get_queue # <<>>
    /\ truck = "none"
    /\ ~BelowThreshold(level)

\* C8 (as stated): no reachable state leaves cars blocked on fuel with no
\* truck called or about to be called: whenever a car waits for fuel, a truck
\* is under way or the level is below the threshold, so that the next check
\* calls one.
C8_BlockedCarGetsTruck == ~Starved

\* once starved, always starved (the horizon aside): the waiting car is never
\* served
C8_StarvedForever == [][Starved => (Starved' \/ status' = "stopped")]_vars

C10_CreationOrder ==
    \A e \in queue : e.time = popped.time => popped.eid < e.eid

\* C10 (amended): each step processes the event that is least by (time,
\* priority, creation order): among events due at the same time the urgent
\* ones (process starts) come before the normal ones, whenever created, and
\* events of the same priority in the order of their creation.
C10_PriorityThenCreationOrder ==
    [][\A e \in queue \ {popped'} :
          \/ popped'.time < e.time
          \/ popped'.time = e.time /\ popped'.prio < e.prio
          \/ popped'.time = e.time /\ popped'.prio = e.prio /\ popped'.eid < e.eid]_vars

\* C10 witness: a car's start has been processed before the controller's
\* check due at the same time, which was scheduled earlier.
C10_Witness ==
    /\ popped.kind = "car_init"
    /\ \E e \in queue : e.kind = "ctrl_poll" /\ e.time = popped.time /\ e.eid < popped.eid

\* C11 (as stated): when the run has stopped, every event due at or before
\* the horizon (1000) has been processed: none is left in the queue.
C11_ProcessedThroughHorizon ==
    status = "stopped" => \A e \in queue : e.time > Ticks(UNTIL)

\* C11 (amended): the clock never decreases and is always the time of the
\* event popped last; no event is ever due in the past; the run stops at the
\* horizon with every event due BEFORE 1000 processed, while the events due at
\* exactly 1000 are left unprocessed: the only event processed at the horizon
\* is the until event itself, and nothing is processed later.
C11_ClockAndHorizon ==
    /\ [](/\ now = popped.time
          /\ \A e \in queue : e.time >= now
          /\ now <= Ticks(UNTIL)
          /\ popped.time = Ticks(UNTIL) => popped.kind = "until"
          /\ status = "stopped"
                => /\ now = Ticks(UNTIL)
                   /\ popped.kind = "until"
                   /\ \A e \in queue : e.time >= Ticks(UNTIL))
    /\ [][/\ now' >= now
          /\ status = "running" /\ queue # {} /\ popped' = NextEvent(queue)
          /\ queue \ {popped'} \subseteq queue'
          /\ status' = "stopped" <=> popped'.kind = "until"]_vars

\* C11 witness: the run has stopped at the horizon and an event due at
\* exactly 1000 is still in the queue.
C11_Witness ==
    /\ status = "stopped"
    /\ \E e \in queue : e.time = Ticks(UNTIL)

\* the events of a tank_truck process: its start, its timeout, its put and
\* its end
TruckEvents ==
    {e \in queue : e.kind \in {"truck_init", "truck_arrive", "put", "truck_end"}}

\* the controller's pending level checks
PollEvents == {e \in queue : e.kind = "ctrl_poll"}

\* C12: a truck is started only by a level check of the controller that finds
\* level < 20 (a check at 20 or more, 20 included, starts none and schedules
\* the next check); the controller then waits for that truck: while it does,
\* exactly one truck is under way and no level check is pending, and otherwise
\* no truck exists and exactly one check is pending.
C12_OneTruckAtATime ==
    /\ truck = "init"
          => popped.kind \in {"ctrl_init", "ctrl_poll"} /\ level < DropLevel
    /\ popped.kind \in {"ctrl_init", "ctrl_poll"}
          => IF level < DropLevel
             THEN ctrl = "dispatching" /\ truck = "init" /\ callTime = now
             ELSE ctrl = "monitoring" /\ truck = "none"
    /\ ctrl = "dispatching" <=> truck # "none"
    /\ ctrl = "dispatching"
          => Cardinality(TruckEvents) = 1 /\ PollEvents = {}
    /\ ctrl = "monitoring"
          => TruckEvents = {} /\ Cardinality(PollEvents) = 1
    /\ ctrl = "init" => TruckEvents = {} /\ PollEvents = {}

\* C12 witness: after a truck was called and has refilled the reservoir, a
\* level check finds exactly 20 liters and calls no truck.
C12_Witness ==
    /\ popped.kind = "ctrl_poll"
    /\ level = DropLevel
    /\ callTime >= 0
    /\ ctrl = "monitoring"

\* the time the controller's checks are counted from: 0 before the first
\* truck, the end of the last truck after it
CheckBase == IF callTime < 0 THEN 0 ELSE callTime + Ticks(TANK_TRUCK_TIME)

\* C13: the first level check is at time 0; while the controller monitors,
\* its checks are exactly CHECK_INTERVAL (10) apart: the one pending check is
\* due at most 10 after the current time, at a multiple of 10 from time 0 or
\* from the end of the last truck. The controller is back at monitoring in the
\* step that ends the truck, at the time of the truck's put (300 after the
\* call), with its next check due exactly 10 later; no check happens between
\* a call and 310 after it, so that two calls are at least 310 apart.
C13_CheckTimes ==
    /\ [](/\ ctrl = "init" => now = 0
          /\ popped.kind = "ctrl_init" => now = 0
          /\ ctrl = "monitoring"
                => \A e \in PollEvents :
                      /\ e.time >= now
                      /\ e.time <= now + Ticks(CHECK_INTERVAL)
                      /\ e.time >= CheckBase + Ticks(CHECK_INTERVAL)
                      /\ (e.time - CheckBase) % Ticks(CHECK_INTERVAL) = 0
          /\ (popped.kind = "ctrl_poll" /\ ctrl = "monitoring")
                => \A e \in PollEvents : e.time = now + Ticks(CHECK_INTERVAL)
          /\ truck \in {"putting", "done"} => now = callTime + Ticks(TANK_TRUCK_TIME)
          /\ popped.kind = "truck_end"
                => /\ ctrl = "monitoring"
                   /\ now = callTime + Ticks(TANK_TRUCK_TIME)
                   /\ \A e \in PollEvents : e.time = now + Ticks(CHECK_INTERVAL))
    /\ [][/\ popped'.kind = "ctrl_poll"
                => /\ popped'.time = now'
                   /\ popped'.time >= CheckBase + Ticks(CHECK_INTERVAL)
                   /\ (popped'.time - CheckBase) % Ticks(CHECK_INTERVAL) = 0
          /\ (callTime' # callTime /\ callTime >= 0)
                => callTime' >= callTime + Ticks(TANK_TRUCK_TIME) + Ticks(CHECK_INTERVAL)
         ]_vars

\* C13 witness: the controller makes its first check after a truck, 10 time
\* units after the truck's put.
C13_Witness ==
    /\ popped.kind = "ctrl_poll"
    /\ callTime >= 0
    /\ now = callTime + Ticks(TANK_TRUCK_TIME) + Ticks(CHECK_INTERVAL)
    /\ ctrl = "monitoring"

\* C14: the truck puts capacity - level, with the level it finds when it
\* arrives: the amount is positive and fills the reservoir exactly; the put is
\* done in the step that issues it (it neither raises nor waits in the put
\* queue), and the put event and the end of the truck process are due at the
\* arrival time, 300 after the call.
C14_TruckPutSucceeds ==
    /\ [](/\ status # "error"
          /\ cput_queue = <<>>
          /\ truck = "putting"
                => /\ popped.kind = "truck_arrive"
                   /\ level = GAS_STATION_VOLUME
                   /\ \E e \in TruckEvents : e.kind = "put" /\ e.time = now
          /\ truck = "done"
                => \E e \in TruckEvents : e.kind = "truck_end" /\ e.time = now
          /\ popped.kind \in {"truck_arrive", "put", "truck_end"}
                => now = callTime + Ticks(TANK_TRUCK_TIME))
    /\ [][popped'.kind = "truck_arrive"
            => /\ GAS_STATION_VOLUME - level > 0
               /\ level' = level + (GAS_STATION_VOLUME - level)
               /\ truck' = "putting"
               /\ status' = "running"]_vars

\* C14 witness: the truck process has ended at the time of its arrival, 300
\* after the call, with its put done.
C14_Witness ==
    /\ popped.kind = "truck_end"
    /\ truck = "none"
    /\ now = callTime + Ticks(TANK_TRUCK_TIME)
    /\ cput_queue = <<>>

\* the events of kind k pending for car c
CarEvents(c, k) == {e \in queue : e.kind = k /\ e.car = c}

\* C15: a car goes through waiting for a pump, waiting for fuel, refuelling
\* and done in this order, one at a time. While it waits for a pump it is in
\* the pump queue or its grant is due now; it issues its get only once it
\* holds a pump and holds the pump until it is done; its refuelling timeout
\* starts in the step that processes its granted get, at the time of the
\* grant, and is due exactly required / REFUELING_SPEED later; it is done when
\* that timeout fires.
C15_CarLifecycle ==
    /\ [](\A c \in DOMAIN cars :
            /\ cars[c].pc = "request"
                  => /\ c \notin Waiters
                     /\ CarEvents(c, "get") = {} /\ CarEvents(c, "refuel") = {}
                     /\ \/ c \in Range(put_queue) /\ c \notin Range(users)
                              /\ CarEvents(c, "request") = {}
                        \/ c \in Range(users) /\ c \notin Range(put_queue)
                              /\ \E e \in CarEvents(c, "request") : e.time = now
            /\ cars[c].pc = "get"
                  => /\ c \in Range(users)
                     /\ CarEvents(c, "request") = {} /\ CarEvents(c, "refuel") = {}
                     /\ \/ c \in Waiters /\ CarEvents(c, "get") = {}
                        \/ c \notin Waiters /\ \E e \in CarEvents(c, "get") : e.time = now
            /\ cars[c].pc = "refuel"
                  => /\ c \in Range(users)
                     /\ c \notin Waiters
                     /\ CarEvents(c, "request") = {} /\ CarEvents(c, "get") = {}
                     /\ Cardinality(CarEvents(c, "refuel")) = 1
                     /\ \A e \in CarEvents(c, "refuel") :
                           REFUELING_SPEED * (e.time - now) <= Ticks(LitersRequired(c)))
    /\ [][/\ \A c \in DOMAIN cars' \ DOMAIN cars :
                cars'[c].pc = "request" /\ popped'.kind = "car_init" /\ popped'.car = c
          /\ \A c \in DOMAIN cars \ DOMAIN cars' :
                cars[c].pc = "refuel" /\ popped' \in CarEvents(c, "refuel")
                   /\ c \notin Range(users')
          /\ \A c \in DOMAIN cars \cap DOMAIN cars' :
                \/ cars'[c] = cars[c]
                \/ /\ cars[c].pc = "request" /\ cars'[c].pc = "get"
                   /\ popped' \in CarEvents(c, "request")
                \/ /\ cars[c].pc = "get" /\ cars'[c].pc = "refuel"
                   /\ popped' \in CarEvents(c, "get")
                   /\ \A e \in queue' :
                         (e.kind = "refuel" /\ e.car = c)
                            => REFUELING_SPEED * (e.time - popped'.time)
                                  = Ticks(LitersRequired(c))
         ]_vars

\* C15 witness: a car that waited for the truck's fuel starts refuelling,
\* still holding its pump, while other cars wait for a pump.
C15_Witness ==
    /\ popped.kind = "get"
    /\ truck = "done"
    /\ popped.car \in DOMAIN cars
    /\ cars[popped.car].pc = "refuel"
    /\ popped.car \in Range(users)
    /\ put_queue # <<>>

\* C16: a car that is done releases its own pump and no other: the release
\* removes exactly that car from the holders, never fails, and leaves the pump
\* queue and the reservoir level alone; a car that is done holds no pump. The
\* release event is due at the same time; when it is processed the head of
\* the pump queue, if any, gets the free pump and its resumption is scheduled
\* for that same time, so that at every instant with cars waiting all pumps
\* are held once the instant's releases are processed; with nobody waiting
\* the number of holders stays one lower.
C16_ReleaseOwnPump ==
    /\ [](/\ Range(users) \subseteq DOMAIN cars
          /\ status # "error"
          /\ \A e \in queue :
                e.kind = "release"
                   => e.time = now /\ e.car \notin Range(users) /\ e.car \notin DOMAIN cars
          /\ (put_queue # <<>> /\ Len(users) < PUMP_CAPACITY)
                => \E e \in queue : e.kind = "release" /\ e.time = now)
    /\ [][/\ popped'.kind = "refuel"
                => /\ popped'.car \in Range(users)
                   /\ Range(users') = Range(users) \ {popped'.car}
                   /\ Len(users') = Len(users) - 1
                   /\ put_queue' = put_queue
                   /\ level' = level
                   /\ \E e \in queue' :
                         e.kind = "release" /\ e.car = popped'.car /\ e.time = now'
          /\ popped'.kind = "release"
                => /\ level' = level
                   /\ IF put_queue # <<>> /\ Len(users) < PUMP_CAPACITY
                      THEN /\ users' = Append(users, Head(put_queue))
                           /\ put_queue' = Tail(put_queue)
                           /\ \E e \in queue' :
                                 /\ e.kind = "request"
                                 /\ e.car = Head(put_queue)
                                 /\ e.time = now'
                      ELSE users' = users /\ put_queue' = put_queue
         ]_vars

\* C16 witness: a release has been processed with cars waiting: the head of
\* the queue holds the freed pump, its resumption is due now, all pumps are
\* held and cars still wait.
C16_Witness ==
    /\ popped.kind = "release"
    /\ Len(users) = PUMP_CAPACITY
    /\ put_queue # <<>>
    /\ \E e \in queue :
          e.kind = "request" /\ e.time = now /\ e.car = users[Len(users)]

\* the cars whose get has been issued and whose refuelling has not started
Getting == {c \in DOMAIN cars : cars[c].pc = "get"}

\* C17: the processing of the truck's put does every waiting get: right after
\* it the get queue is empty, every car that waited has its get done (its
\* event is due now, at the truck's arrival time) and the level is the
\* capacity less what these cars asked for. At most 2 cars wait, each for at
\* most 45 liters, and at no time other than between the put and its
\* processing does the head of the get queue ask for no more than the level.
C17_PutDrainsQueue ==
    /\ Len(get_queue) <= PUMP_CAPACITY
    /\ \A k \in DOMAIN get_queue :
          get_queue[k].amount <= FUEL_TANK_SIZE - FUEL_TANK_LEVEL_MIN
    /\ truck # "putting" => (get_queue = <<>> \/ get_queue[1].amount > level)
    /\ popped.kind = "put"
          => /\ get_queue = <<>>
             /\ now = callTime + Ticks(TANK_TRUCK_TIME)
             /\ level = GAS_STATION_VOLUME - SumRequired(Getting)
             /\ \A c \in Getting : \E e \in CarEvents(c, "get") : e.time = now

\* C17 witness: the truck's put has been processed with two cars waiting for
\* fuel, and both have their fuel.
C17_Witness ==
    /\ popped.kind = "put"
    /\ Cardinality(Getting) = PUMP_CAPACITY
    /\ get_queue = <<>>
    /\ level = GAS_STATION_VOLUME - SumRequired(Getting)

\* C18: gets are done in the order they were issued: the get queue is in the
\* order of the cars' labels (the order of their gets), and while a car's get
\* waits no later car has its get done, whether or not the level covers the
\* later car's amount.
C18_GetsFifo ==
    /\ \A j, k \in DOMAIN get_queue : j < k => get_queue[j].car < get_queue[k].car
    /\ \A c \in Waiters : \A d \in Fuelling : d > c => d \in Waiters
    /\ \A k \in DOMAIN get_queue :
          get_queue[k].car \in Getting /\ get_queue[k].amount = LitersRequired(get_queue[k].car)

\* C18 witness: the level covers the get of the second car in the queue but
\* not the get of the first, and both wait.
C18_Witness ==
    /\ Len(get_queue) = 2
    /\ get_queue[1].amount > level
    /\ get_queue[2].amount <= level

\* the pending events of car_generator
GeneratorEvents == {e \in queue : e.kind \in {"gen_init", "gen_timeout"}}

\* C19: the generator waits for its timeout only, never for a car: each time
\* its timeout fires, whatever the earlier cars are doing, it starts the car
\* with the next label (1, 2, 3, ...) at once and draws its next timeout, due
\* between 30 and 300 later; a car takes its place in the order of the labels,
\* each label is used once, and the generator always has exactly one event
\* pending (until the last of the MaxCars cars of the model is started).
C19_GeneratorNeverBlocks ==
    /\ [](/\ Cardinality(GeneratorEvents) = IF ncars < MaxCars THEN 1 ELSE 0
          /\ DOMAIN cars \subseteq 1..ncars
          /\ \A e \in queue :
                e.kind = "car_init"
                   => e.car = ncars /\ e.time = now /\ e.car \notin DOMAIN cars
                      /\ \A c \in DOMAIN cars : c < e.car)
    /\ [][/\ popped'.kind = "gen_timeout"
                => /\ ncars' = ncars + 1
                   /\ \E e \in queue' :
                         e.kind = "car_init" /\ e.car = ncars + 1 /\ e.time = now'
                   /\ ncars + 1 < MaxCars
                         => \E e \in queue' \ queue :
                               /\ e.kind = "gen_timeout"
                               /\ e.time >= now' + Ticks(T_INTER_MIN)
                               /\ e.time <= now' + Ticks(T_INTER_MAX)
          /\ popped'.kind = "gen_init"
                => \E e \in queue' \ queue :
                      /\ e.kind = "gen_timeout"
                      /\ e.time >= now' + Ticks(T_INTER_MIN)
                      /\ e.time <= now' + Ticks(T_INTER_MAX)
          /\ ncars' # ncars => popped'.kind = "gen_timeout"
          /\ popped'.kind = "car_init"
                => /\ popped'.car = ncars
                   /\ DOMAIN cars' = DOMAIN cars \cup {popped'.car}
                   /\ \A c \in DOMAIN cars : c < popped'.car
         ]_vars

\* C19 witness: a car is started while both pumps are held, a car waits for
\* fuel and more cars than there are pumps wait for a pump.
C19_Witness ==
    /\ popped.kind = "car_init"
    /\ popped.car = ncars
    /\ Len(users) = PUMP_CAPACITY
    /\ get_queue # <<>>
    /\ Len(put_queue) > PUMP_CAPACITY

\* the get events a step scheduled: one for each get it did
NewGets == {e \in queue' \ queue : e.kind = "get"}

\* C20: fuel is conserved: the level is the initial 200 plus the liters the
\* trucks have put less the liters of the cars' gets that were done; a step
\* changes the level only by doing a truck's put (the step of its arrival) or
\* cars' gets (the step that issues a get or processes the put), by exactly
\* their amounts, and each get done is of 25 to 45 liters.
C20_FuelConserved ==
    /\ [](/\ level = GAS_STATION_VOLUME + putTotal - gotTotal
          /\ putTotal >= 0
          /\ gotTotal >= 0)
    /\ [][/\ level' # level
                => \/ /\ popped'.kind = "truck_arrive"
                      /\ putTotal' = putTotal + (level' - level)
                      /\ gotTotal' = gotTotal
                   \/ /\ popped'.kind \in {"request", "put"}
                      /\ gotTotal' = gotTotal + (level - level')
                      /\ putTotal' = putTotal
          /\ level' = level => putTotal' = putTotal /\ gotTotal' = gotTotal
          /\ gotTotal' - gotTotal
                >= Cardinality(NewGets) * (FUEL_TANK_SIZE - FUEL_TANK_LEVEL_MAX)
          /\ gotTotal' - gotTotal
                <= Cardinality(NewGets) * (FUEL_TANK_SIZE - FUEL_TANK_LEVEL_MIN)
         ]_vars

\* C20 witness: the truck has put its fuel and the cars that waited for it
\* have theirs: puts and gets both count and the cars have taken more than
\* the truck brought.
C20_Witness ==
    /\ popped.kind = "put"
    /\ putTotal > 0
    /\ gotTotal > putTotal
    /\ level < GAS_STATION_VOLUME

====
